---- MODULE Spec2Model ----
(***************************************************************************)
(* The render-context promise cache of useNunjucks                         *)
(* (packages/insomnia/src/ui/context/nunjucks/use-nunjucks.ts).            *)
(*                                                                         *)
(* JavaScript runs handleRender on one thread.  Everything up to the await *)
(* of line 61 is one atomic step: the test of the table, the builder       *)
(* invocation and the store of its promise, setTimeout, and the read of    *)
(* the promise that is awaited.  The continuation after the await (render, *)
(* line 62) is a microtask: it runs as soon as the awaited promise has     *)
(* settled, before any timer callback or later call, so it is part of the  *)
(* step that settles the promise, or of the call itself when the promise   *)
(* it awaits has settled already.  Timers fire when the clock reaches      *)
(* their due time.  The clock counts ticks of EvictionDelay/TicksPerDelay  *)
(* milliseconds.                                                           *)
(***************************************************************************)
EXTENDS Integers, Sequences, FiniteSets, TLC

\* Bounds of the model.
MaxCalls == 3
TicksPerDelay == 2

\* setTimeout(..., 5000), in milliseconds.
EvictionDelay == 5000

\* Milliseconds in a number of ticks.
Ms(ticks) == (ticks * EvictionDelay) \div TicksPerDelay

\* The last tick at which the model makes a call.
LastCallTick == TicksPerDelay + 1

\* Values of the parameter contextCacheKey: null (the default) or a string.
Null == [t |-> "null", s |-> ""]
Str(s) == [t |-> "string", s |-> s]
CacheKeys == {Null, Str("null"), Str("req-1")}

\* Values of the parameter obj: a template that renders, and one that does not.
Templates == {"{{ url }}", "{{ url"}

\* Ids of the requests the user can make active.
Requests == {"req-1", "req-2"}

VARIABLES
    now,                            \* the clock, in ticks
    getRenderContextPromiseCache,   \* property name -> promise (its index in promises)
    promises,                       \* the promises fetchRenderContext has returned
    timers,                         \* the pending setTimeout callbacks
    calls,                          \* the calls of handleRender made so far
    request,                        \* selectActiveRequest: the id of the active request
    submits,                        \* the invocations of interpolateOpenAndSend
    ipc,                            \* the window.main.webSocket calls made so far
    dialogs,                        \* the dialogs shown so far
    readyState,                     \* the ready state of the request's connection
    version,                        \* the state of useActiveRequestSyncVCSVersion
    listeners,                      \* the callbacks registered with database.onChange
    batch,                          \* the change batch the database delivered last
    payloads,                       \* the webSocketPayload documents of the request
    upserts,                        \* the invocations of the two upsert functions
    previewMode,                    \* the pane's state previewMode
    document,                       \* the request document the request pane edits
    savedRequestBody,               \* requestMeta.savedRequestBody of that request
    updated,                        \* the mime types chosen so far
    bodies                          \* the body the request had before each choice

\* The state of the WebSocket request pane.
pane == <<submits, ipc, dialogs, readyState>>

\* The state of the components other than the cache.
\* The state of the payload editor of the WebSocket request pane.
editor == <<payloads, upserts, previewMode>>

\* The state of the request pane.
requestPane == <<document, savedRequestBody, updated, bodies>>

others == <<request, pane, version, listeners, batch, editor, requestPane>>

vars == <<now, getRenderContextPromiseCache, promises, timers, calls, others>>

\* !contextCacheKey: null and the empty string are falsy.
Falsy(key) == key.t = "null" \/ key.s = ""

\* The property name an index expression obj[key] uses: null indexes "null".
ToPropertyKey(key) == IF key.t = "null" THEN "null" ELSE key.s

\* delete table[name]
Delete(table, name) == [n \in DOMAIN table \ {name} |-> table[n]]

\* table[name] = promise
Put(table, name, promise) ==
    [n \in DOMAIN table \cup {name} |-> IF n = name THEN promise ELSE table[n]]

\* Mutant: the table is not consulted.
FetchAlways(key, table) == TRUE

\* Mutant: the key is not tested, only the table.
FetchIfAbsent(key, table) == ToPropertyKey(key) \notin DOMAIN table

\* The condition of line 51: a promise object is truthy, a missing property is not.
MustFetch(key, table) == Falsy(key) \/ ToPropertyKey(key) \notin DOMAIN table

\* Mutant: the promise of a call without a key is not stored.
StoreFetchedOfKey(table, key, promise) ==
    IF key.t = "null" THEN table ELSE Put(table, ToPropertyKey(key), promise)

\* Line 54: the table after the assignment of a new promise.
StoreFetched(table, key, promise) == Put(table, ToPropertyKey(key), promise)

\* Mutant: the callback deletes the key as given, not the property name it indexes.
EvictionTimerOfRawKey(id, key, at) ==
    [id |-> id, key |-> key.s, due |-> at + TicksPerDelay, reset |-> FALSE]

\* Line 59: the callback handed to setTimeout, and the tick it is due at.  The
\* field reset records whether the table has been reset since.
EvictionTimer(id, key, at) ==
    [id |-> id, key |-> ToPropertyKey(key), due |-> at + TicksPerDelay, reset |-> FALSE]

\* Mutant: the callback deletes only the promise its own call awaited.
EvictIfSame(table, timer) ==
    IF timer.key \in DOMAIN table /\ table[timer.key] = calls[timer.id].awaits
      THEN Delete(table, timer.key)
      ELSE table

\* Line 59, the callback's body: delete getRenderContextPromiseCache[contextCacheKey].
Evict(table, timer) == Delete(table, timer.key)

\* common/render render(obj, context): fails on a template it cannot evaluate.
RenderFails(obj) == obj = "{{ url"

\* Lines 61-62 after the await: the rejection is rethrown, or render runs.
Outcome(obj, status) ==
    IF status = "pending" THEN "awaiting"
    ELSE IF status = "rejected" THEN "threwFetch"
    ELSE IF RenderFails(obj) THEN "threwRender"
    ELSE "returned"

\* A call is live until the table entry of its property name is removed.
EndResidency(cs, names) ==
    [i \in 1..Len(cs) |->
        IF ToPropertyKey(cs[i].key) \in names THEN [cs[i] EXCEPT !.live = FALSE] ELSE cs[i]]

\* A new request: models/request init, method GET, no headers, no body.
NewRequest == [method |-> "GET", headers |-> << >>, body |-> << >>]

InitOfPanes ==
    /\ now = 0
    /\ getRenderContextPromiseCache = << >>
    /\ promises = << >>
    /\ timers = {}
    /\ calls = << >>
    /\ request = "req-1"
    /\ submits = << >>
    /\ ipc = << >>
    /\ dialogs = << >>
    /\ readyState = FALSE
    /\ version = 0
    /\ listeners = <<"req-1">>
    /\ batch = {}
    /\ payloads = << >>
    /\ upserts = << >>
    /\ previewMode = "application/json"
    /\ savedRequestBody = << >>
    /\ updated = << >>
    /\ bodies = << >>

Init == InitOfPanes /\ document = NewRequest

\* handleRender(obj, contextCacheKey), lines 50-63.
HandleRender(obj, key) ==
    /\ Len(calls) < MaxCalls
    /\ now <= LastCallTick
    /\ LET id == Len(calls) + 1
           fetch == MustFetch(key, getRenderContextPromiseCache)
           new == Len(promises) + 1
           table == IF fetch
                      THEN StoreFetched(getRenderContextPromiseCache, key, new)
                      ELSE getRenderContextPromiseCache
           name == ToPropertyKey(key)
           awaited == IF name \in DOMAIN table THEN table[name] ELSE 0
       IN /\ promises' = IF fetch
                           THEN Append(promises, [status |-> "pending", by |-> id,
                                                 context |-> request])
                           ELSE promises
          /\ getRenderContextPromiseCache' = table
          /\ timers' = timers \cup {EvictionTimer(id, key, now)}
          /\ calls' = Append(calls,
                [key |-> key, obj |-> obj, at |-> now, fetched |-> fetch,
                 awaits |-> awaited, live |-> TRUE, request |-> request,
                 state |-> IF awaited = 0 THEN "returned"
                           ELSE Outcome(obj, promises'[awaited].status)])
    /\ UNCHANGED <<now, others>>

\* Mutant: a promise whose entry has been removed from the table never settles.
SettleIfCached(p, status) ==
    /\ promises[p].status = "pending"
    /\ \E name \in DOMAIN getRenderContextPromiseCache :
            getRenderContextPromiseCache[name] = p
    /\ promises' = [promises EXCEPT ![p].status = status]
    /\ calls' = [c \in 1..Len(calls) |->
                    IF calls[c].awaits = p
                      THEN [calls[c] EXCEPT !.state = Outcome(calls[c].obj, status)]
                      ELSE calls[c]]
    /\ UNCHANGED <<now, getRenderContextPromiseCache, timers, others>>

\* Mutant: a render failure of an awaiting call turns the cached promise into a
\* rejected one.
SettleAndCacheRenderFailure(p, status) ==
    /\ promises[p].status = "pending"
    /\ promises' = [promises EXCEPT ![p].status =
                        IF status = "fulfilled"
                           /\ \E c \in DOMAIN calls : calls[c].awaits = p /\ RenderFails(calls[c].obj)
                          THEN "rejected" ELSE status]
    /\ calls' = [c \in 1..Len(calls) |->
                    IF calls[c].awaits = p
                      THEN [calls[c] EXCEPT !.state = Outcome(calls[c].obj, status)]
                      ELSE calls[c]]
    /\ UNCHANGED <<now, getRenderContextPromiseCache, timers, others>>

\* fetchRenderContext (lines 27-34) completes: its promise fulfils or rejects, and
\* the calls that await it continue.
Settle(p, status) ==
    /\ promises[p].status = "pending"
    /\ promises' = [promises EXCEPT ![p].status = status]
    /\ calls' = [c \in 1..Len(calls) |->
                    IF calls[c].awaits = p
                      THEN [calls[c] EXCEPT !.state = Outcome(calls[c].obj, status)]
                      ELSE calls[c]]
    /\ UNCHANGED <<now, getRenderContextPromiseCache, timers, others>>

\* A setTimeout callback of line 59 runs.  All timers have the same delay, so they
\* run in the order they were scheduled.
TimerFires(timer) ==
    /\ timer.due <= now
    /\ \A t \in timers : timer.id <= t.id
    /\ getRenderContextPromiseCache' = Evict(getRenderContextPromiseCache, timer)
    /\ timers' = timers \ {timer}
    /\ calls' = EndResidency(calls, DOMAIN getRenderContextPromiseCache
                                        \ DOMAIN getRenderContextPromiseCache')
    /\ UNCHANGED <<now, promises, others>>

\* initializeNunjucksRenderPromiseCache, lines 12-14.
InitializeNunjucksRenderPromiseCache ==
    /\ getRenderContextPromiseCache # << >>
    /\ getRenderContextPromiseCache' = << >>
    /\ calls' = EndResidency(calls, DOMAIN getRenderContextPromiseCache)
    /\ timers' = {[t EXCEPT !.reset = TRUE] : t \in timers}
    /\ UNCHANGED <<now, promises, others>>

\* Time passes, never past a timer that is due.  The clock starts with the first
\* call.
Advance ==
    /\ calls # << >>
    /\ now < LastCallTick \/ timers # {}
    /\ \A t \in timers : t.due > now
    /\ now' = now + 1
    /\ UNCHANGED <<getRenderContextPromiseCache, promises, timers, calls, others>>

\* The program after the module has loaded: nothing under src/ calls
\* initializeNunjucksRenderPromiseCache but the module itself, at line 16 (Init).
\* The cache logic never reads obj: the calls here pass the template that renders.
Next ==
    \/ \E key \in CacheKeys : HandleRender("{{ url }}", key)
    \/ \E p \in DOMAIN promises, status \in {"fulfilled", "rejected"} : Settle(p, status)
    \/ \E timer \in timers : TimerFires(timer)
    \/ Advance

Spec == Init /\ [][Next]_vars

\* Timers run when they are due, and time passes.
FairSpec == Spec /\ WF_vars(\E timer \in timers : TimerFires(timer)) /\ WF_vars(Advance)

\* The program with a caller of the exported initializeNunjucksRenderPromiseCache.
NextWithReset == Next \/ InitializeNunjucksRenderPromiseCache

SpecWithReset == Init /\ [][NextWithReset]_vars

\* The store's active request changes (lines 22 and 27-34: the hook renders again
\* and fetchRenderContext closes over the new request).
SelectActiveRequest(r) ==
    /\ r # request
    /\ request' = r
    /\ UNCHANGED <<now, getRenderContextPromiseCache, promises, timers, calls, pane,
                   version, listeners, batch, editor, requestPane>>

\* The program while the user switches between requests.
NextWithSwitch == Next \/ \E r \in Requests : SelectActiveRequest(r)

SpecWithSwitch == Init /\ [][NextWithSwitch]_vars

\* The program with callers that pass either template, with a key or without.
NextWithTemplates ==
    \/ \E obj \in Templates, key \in {Null, Str("req-1")} : HandleRender(obj, key)
    \/ \E p \in DOMAIN promises, status \in {"fulfilled", "rejected"} : Settle(p, status)
    \/ \E timer \in timers : TimerFires(timer)
    \/ Advance

SpecWithTemplates == Init /\ [][NextWithTemplates]_vars

(***************************************************************************)
(* The send flow of the WebSocket request pane                             *)
(* (packages/insomnia/src/ui/components/websockets/                        *)
(* websocket-request-pane.tsx, interpolateOpenAndSend, lines 111-157).     *)
(* Each await is a point where other handlers can run; what follows an     *)
(* await up to the next one, the catch block included, is one step.        *)
(***************************************************************************)

\* Bound of the model: the number of form submits.
MaxSubmits == 2

\* What an awaited call can throw: nothing, a render error (type 'render'), or an
\* Error without a type.
NoError == [type |-> "none"]
RenderError == [type |-> "render"]
OtherError == [type |-> "undefined"]
Errors == {RenderError, OtherError}

\* common/render render(obj, context): the value a template renders to.
Render(obj) == IF obj = "{{ url }}" THEN "wss://example.test" ELSE "<" \o obj \o ">"

\* The state of the components other than the pane.
notPane == <<now, getRenderContextPromiseCache, promises, timers, calls, request,
             version, listeners, batch, editor, requestPane>>

\* Mutant: the catch block does not look at the type of the error.
CatchAsAlert(err) == "Unexpected Request Failure"

\* Lines 137-156, the catch block: the dialog it shows.
Catch(err) ==
    IF err.type = "render" THEN "RequestRenderErrorModal" ELSE "Unexpected Request Failure"

\* Mutant: the ready state is not consulted.
OpensAlways(state) == TRUE

\* Line 116: if (!readyState).
Opens(state) == ~state

\* The onSubmit handler of lines 178-181 calls interpolateOpenAndSend, which runs
\* up to the await of getRenderContext (line 113).
Submit(payload) ==
    /\ Len(submits) < MaxSubmits
    /\ submits' = Append(submits, [payload |-> payload, pc |-> "getRenderContext",
                                   message |-> "", readyState |-> FALSE,
                                   err |-> NoError])
    /\ UNCHANGED <<ipc, dialogs, readyState, notPane>>

\* The awaited call of submit s throws err: the catch block shows its dialog.
Throw(s, err) ==
    /\ submits' = [submits EXCEPT ![s].pc = "done", ![s].err = err]
    /\ dialogs' = Append(dialogs, [submit |-> s, dialog |-> Catch(err)])
    /\ UNCHANGED <<ipc, readyState, notPane>>

\* Line 113: getRenderContext settles; line 114 calls render on the payload.
GetRenderContextSettles(s, result) ==
    /\ submits[s].pc = "getRenderContext"
    /\ IF result \in Errors
         THEN Throw(s, result)
         ELSE /\ submits' = [submits EXCEPT ![s].pc = "render"]
              /\ UNCHANGED <<ipc, dialogs, readyState, notPane>>

\* Line 114: render of the payload settles; line 115 asks for the ready state.
RenderSettles(s) ==
    /\ submits[s].pc = "render"
    /\ IF RenderFails(submits[s].payload)
         THEN Throw(s, RenderError)
         ELSE /\ submits' = [submits EXCEPT ![s].pc = "getCurrent",
                                            ![s].message = Render(submits[s].payload)]
              /\ UNCHANGED <<ipc, dialogs, readyState, notPane>>

\* Line 115: readyState.getCurrent settles.  Lines 116-117 and 136: with a
\* connection the message is sent, without one the cookie jar is asked for.
GetCurrentSettles(s, result) ==
    /\ submits[s].pc = "getCurrent"
    /\ IF result \in Errors
         THEN Throw(s, result)
         ELSE IF Opens(readyState)
           THEN /\ submits' = [submits EXCEPT ![s].pc = "getOrCreateForParentId",
                                              ![s].readyState = readyState]
                /\ UNCHANGED <<ipc, dialogs, readyState, notPane>>
           ELSE /\ submits' = [submits EXCEPT ![s].pc = "done",
                                              ![s].readyState = readyState]
                /\ ipc' = Append(ipc, [submit |-> s, call |-> "webSocket.event.send",
                                       payload |-> submits[s].message])
                /\ UNCHANGED <<dialogs, readyState, notPane>>

\* Line 117: cookieJar.getOrCreateForParentId settles; line 118 calls render on
\* the request.
GetOrCreateForParentIdSettles(s, result) ==
    /\ submits[s].pc = "getOrCreateForParentId"
    /\ IF result \in Errors
         THEN Throw(s, result)
         ELSE /\ submits' = [submits EXCEPT ![s].pc = "renderRequest"]
              /\ UNCHANGED <<ipc, dialogs, readyState, notPane>>

\* Lines 118-134: render of the request settles, and the connection is opened.
RenderRequestSettles(s, result) ==
    /\ submits[s].pc = "renderRequest"
    /\ IF result \in Errors
         THEN Throw(s, result)
         ELSE /\ submits' = [submits EXCEPT ![s].pc = "done"]
              /\ ipc' = Append(ipc, [submit |-> s, call |-> "webSocket.open",
                                     initialPayload |-> submits[s].message])
              /\ UNCHANGED <<dialogs, readyState, notPane>>

\* The main process opens or closes the connection of the request.
ReadyStateChanges ==
    /\ readyState' = ~readyState
    /\ UNCHANGED <<submits, ipc, dialogs, notPane>>

PaneNext ==
    \/ \E payload \in Templates : Submit(payload)
    \/ \E s \in DOMAIN submits, result \in {NoError} \cup Errors :
            GetRenderContextSettles(s, result)
    \/ \E s \in DOMAIN submits : RenderSettles(s)
    \/ \E s \in DOMAIN submits, result \in {NoError, OtherError} :
            GetCurrentSettles(s, result)
    \/ \E s \in DOMAIN submits, result \in {NoError, OtherError} :
            GetOrCreateForParentIdSettles(s, result)
    \/ \E s \in DOMAIN submits, result \in {NoError} \cup Errors :
            RenderRequestSettles(s, result)
    \/ ReadyStateChanges

PaneSpec == Init /\ [][PaneNext]_vars

(***************************************************************************)
(* useActiveRequestSyncVCSVersion (ui/hooks/use-vcs-version, lines 66-76   *)
(* of src/unnamed/part_000).  The effect of lines 70-73 runs when the hook *)
(* mounts (Init) and whenever the id of the active request changes; it     *)
(* returns no cleanup function.  listeners holds, for each callback handed *)
(* to database.onChange, the request id its closure captured.              *)
(***************************************************************************)

\* Bounds of the model: the version, and the number of effect runs.
MaxVersion == 2
MaxListeners == 3

\* The change batches the database delivers: sets of changes, each with the id of
\* its document and the fromSync flag.
Changes == [doc : Requests, fromSync : BOOLEAN]
Batches == SUBSET Changes \ {{}}

\* The state of the components other than the hook.
notVcs == <<now, getRenderContextPromiseCache, promises, timers, calls, pane, editor,
            requestPane>>

\* Line 71, isRequestUpdatedFromSync, for the callback that captured id.
IsRequestUpdatedFromSync(id, changes) ==
    \E change \in changes : id = change.doc /\ change.fromSync

\* The callbacks that call setVersion for a batch.
Notified(changes) ==
    {l \in DOMAIN listeners : IsRequestUpdatedFromSync(listeners[l], changes)}

\* The active request becomes r: the hook renders again and the effect of
\* lines 70-73 registers a callback for r.
ActiveRequestChanges(r) ==
    /\ Len(listeners) < MaxListeners
    /\ r # request
    /\ request' = r
    /\ listeners' = Append(listeners, r)
    /\ UNCHANGED <<version, batch, notVcs>>

\* The database delivers a batch to every registered callback (line 72); each
\* callback that finds its request in it calls setVersion(v => v + 1).
OnChange(changes) ==
    /\ version < MaxVersion
    /\ batch' = changes
    /\ version' = version + Cardinality(Notified(changes))
    /\ UNCHANGED <<request, listeners, notVcs>>

VcsNext ==
    \/ \E r \in Requests : ActiveRequestChanges(r)
    \/ \E changes \in Batches : OnChange(changes)

VcsSpec == Init /\ [][VcsNext]_vars

(***************************************************************************)
(* The payload editor of the WebSocket request pane                        *)
(* (websocket-request-pane.tsx): upsertPayloadWithValue, lines 159-170,    *)
(* and changeMode and upsertPayloadWithMode, lines 235-252.  The database  *)
(* serves a query or a write at the step that settles its promise.         *)
(***************************************************************************)

\* Bound of the model: the number of upsert invocations.
MaxUpserts == 3

\* What the user types into the editor, and the modes of the dropdown.
Values == {"a", "ab"}
Modes == {"application/json", "text/plain"}

\* The state of the components other than the editor.
notEditor == <<now, getRenderContextPromiseCache, promises, timers, calls, request,
               pane, version, listeners, batch, requestPane>>

\* models.webSocketPayload.getByParentId: a payload of the request, or none (0).
GetByParentId(docs) == IF docs = << >> THEN 0 ELSE 1

\* The writes of lines 161-169 and 243-251: update(payload, patch) on the document
\* found, or create of a document with the patch and the other fields given.
Write(docs, found, patch, defaults) ==
    IF found # 0
      THEN [docs EXCEPT ![found] = [f \in DOMAIN docs[found] |->
                                        IF f \in DOMAIN patch THEN patch[f]
                                        ELSE docs[found][f]]]
      ELSE Append(docs, [f \in DOMAIN patch \cup DOMAIN defaults |->
                            IF f \in DOMAIN patch THEN patch[f] ELSE defaults[f]])

\* The CodeEditor's onChange (line 188) calls upsertPayloadWithValue, which runs up
\* to the await of getByParentId (line 160).
UpsertPayloadWithValue(value) ==
    /\ Len(upserts) < MaxUpserts
    /\ upserts' = Append(upserts, [pc |-> "getByParentId", found |-> 0,
                                   patch |-> [value |-> value],
                                   defaults |-> [mode |-> previewMode]])
    /\ UNCHANGED <<payloads, previewMode, notEditor>>

\* changeMode (lines 235-238): setPreviewMode, then upsertPayloadWithMode up to the
\* await of getByParentId (line 242).
ChangeMode(mode) ==
    /\ Len(upserts) < MaxUpserts
    /\ previewMode' = mode
    /\ upserts' = Append(upserts, [pc |-> "getByParentId", found |-> 0,
                                   patch |-> [mode |-> mode],
                                   defaults |-> [value |-> ""]])
    /\ UNCHANGED <<payloads, notEditor>>

\* getByParentId settles (lines 160 and 242); the function calls update or create
\* (lines 161-169 and 243-251).
GetByParentIdSettles(u) ==
    /\ upserts[u].pc = "getByParentId"
    /\ upserts' = [upserts EXCEPT ![u].pc = "write",
                                  ![u].found = GetByParentId(payloads)]
    /\ UNCHANGED <<payloads, previewMode, notEditor>>

\* update or create settles.
WriteSettles(u) ==
    /\ upserts[u].pc = "write"
    /\ payloads' = Write(payloads, upserts[u].found, upserts[u].patch, upserts[u].defaults)
    /\ upserts' = [upserts EXCEPT ![u].pc = "done"]
    /\ UNCHANGED <<previewMode, notEditor>>

EditorNext ==
    \/ \E value \in Values : UpsertPayloadWithValue(value)
    \/ \E mode \in Modes : ChangeMode(mode)
    \/ \E u \in DOMAIN upserts : GetByParentIdSettles(u)
    \/ \E u \in DOMAIN upserts : WriteSettles(u)

EditorSpec == Init /\ [][EditorNext]_vars

(***************************************************************************)
(* The body type of the request pane                                       *)
(* (packages/insomnia/src/ui/components/panes/request-pane.tsx):           *)
(* newBodyGraphQL, lines 70-88, updateMimeType, lines 89-208, and          *)
(* updateRequestMimeType, lines 294-306.  A body is a function from its    *)
(* property names to their values, {} the empty one; headers are a         *)
(* sequence of name and value pairs.                                       *)
(***************************************************************************)

\* Bound of the model: the number of body type changes.
MaxUpdates == 3

\* common/constants.
CONTENT_TYPE_JSON == "application/json"
CONTENT_TYPE_XML == "application/xml"
CONTENT_TYPE_GRAPHQL == "application/graphql"
CONTENT_TYPE_FORM_URLENCODED == "application/x-www-form-urlencoded"
CONTENT_TYPE_FORM_DATA == "multipart/form-data"
CONTENT_TYPE_FILE == "application/octet-stream"
CONTENT_TYPE_OTHER == ""
METHOD_POST == "POST"

\* Insomnia/${version}, line 138.
UserAgent == "Insomnia/2023.1.0"

\* The state of the components other than the request pane.
notRequestPane == <<now, getRenderContextPromiseCache, promises, timers, calls, request,
                    pane, version, listeners, batch, editor>>

\* String.prototype.includes.
Includes(s, sub) ==
    \E i \in 1..(Len(s) - Len(sub) + 1) : SubSeq(s, i, i + Len(sub) - 1) = sub

\* String.prototype.toLowerCase, on the letters of header names.
LowerOf(ch) ==
    CASE ch = "A" -> "a" [] ch = "C" -> "c" [] ch = "E" -> "e" [] ch = "G" -> "g"
      [] ch = "N" -> "n" [] ch = "R" -> "r" [] ch = "S" -> "s" [] ch = "T" -> "t"
      [] ch = "U" -> "u" [] OTHER -> ch

RECURSIVE ToLowerCase(_)
ToLowerCase(s) ==
    IF s = "" THEN "" ELSE LowerOf(SubSeq(s, 1, 1)) \o ToLowerCase(SubSeq(s, 2, Len(s)))

\* String.prototype.split on a one-character separator.
RECURSIVE Split(_, _)
Split(s, sep) ==
    IF ~Includes(s, sep) THEN <<s>>
    ELSE LET i == CHOOSE j \in 1..Len(s) :
                    /\ SubSeq(s, j, j) = sep
                    /\ \A k \in 1..(j - 1) : SubSeq(s, k, k) # sep
         IN <<SubSeq(s, 1, i - 1)>> \o Split(SubSeq(s, i + 1, Len(s)), sep)

\* String.prototype.replace(/.../g, '') for a literal pattern.
RECURSIVE Remove(_, _)
Remove(s, pattern) ==
    IF Len(s) < Len(pattern) THEN s
    ELSE IF SubSeq(s, 1, Len(pattern)) = pattern
      THEN Remove(SubSeq(s, Len(pattern) + 1, Len(s)), pattern)
      ELSE SubSeq(s, 1, 1) \o Remove(SubSeq(s, 2, Len(s)), pattern)

\* The body texts of the model, and those of them JSON.parse accepts.
Texts == {"", "a=1&b=2", "{\"q\":\"a\\\\nb\"}"}
JsonParses(text) == text = "{\"q\":\"a\\\\nb\"}"

\* utils/url/querystring deconstructQueryStringToParams.
DeconstructQueryStringToParams(qs) ==
    LET pairs == Split(qs, "&")
    IN [i \in 1..Len(pairs) |->
            LET nv == Split(pairs[i], "=")
            IN [name |-> nv[1], value |-> IF Len(nv) > 1 THEN nv[2] ELSE ""]]

\* common/misc getContentTypeHeader: the index of the first header named
\* content-type in any case, 0 for null.
GetContentTypeHeader(headers) ==
    IF \E i \in DOMAIN headers : ToLowerCase(headers[i].name) = "content-type"
      THEN CHOOSE i \in DOMAIN headers :
                /\ ToLowerCase(headers[i].name) = "content-type"
                /\ \A j \in 1..(i - 1) : ToLowerCase(headers[j].name) # "content-type"
      ELSE 0

\* headers.filter(h => h !== contentTypeHeader), line 124.
WithoutHeader(headers, i) ==
    [j \in 1..(Len(headers) - (IF i = 0 THEN 0 ELSE 1)) |->
        IF i = 0 \/ j < i THEN headers[j] ELSE headers[j + 1]]

\* oldBody.text || ''
TextOf(body) == IF "text" \in DOMAIN body THEN body.text ELSE ""

\* newBodyGraphQL, lines 70-88.
NewBodyGraphQL(rawBody) ==
    IF JsonParses(rawBody)
      THEN [mimeType |-> CONTENT_TYPE_GRAPHQL, text |-> Remove(rawBody, "\\\\n")]
      ELSE [mimeType |-> CONTENT_TYPE_GRAPHQL, text |-> rawBody]

\* Mutant: the header gets the mime type as chosen.
ContentTypeAsChosen(mimeType) == mimeType.s

\* Line 98: GraphQL uses the JSON content type.
ContentTypeHeaderValue(mimeType) ==
    IF mimeType = Str(CONTENT_TYPE_GRAPHQL) THEN CONTENT_TYPE_JSON ELSE mimeType.s

\* Lines 106-116: converting between variants of XML or of JSON.
LeaveContentTypeAlone(headers, mimeType) ==
    LET h == GetContentTypeHeader(headers)
    IN /\ h # 0
       /\ ~Falsy(mimeType)
       /\ \/ Includes(headers[h].value, "xml") /\ Includes(mimeType.s, "xml")
          \/ Includes(headers[h].value, "json") /\ Includes(mimeType.s, "json")

\* Lines 121-134: the Content-Type header after the change.
UpdateContentType(headers, mimeType) ==
    LET h == GetContentTypeHeader(headers)
    IN IF mimeType.t # "string" THEN WithoutHeader(headers, h)
       ELSE IF mimeType.s = CONTENT_TYPE_OTHER THEN headers
       ELSE IF ~Falsy(mimeType) /\ h # 0 /\ ~LeaveContentTypeAlone(headers, mimeType)
         THEN [headers EXCEPT ![h].value = ContentTypeHeaderValue(mimeType)]
       ELSE IF ~Falsy(mimeType) /\ h = 0
         THEN Append(headers, [name |-> "Content-Type",
                               value |-> ContentTypeHeaderValue(mimeType)])
       ELSE headers

\* Mutant: the name of the header is compared as written.
AddUserAgentByExactName(headers) ==
    IF \E i \in DOMAIN headers : headers[i].name = "User-Agent"
      THEN headers
      ELSE Append(headers, [name |-> "User-Agent", value |-> UserAgent])

\* Lines 135-140: a User-Agent header is added when there is none.
AddUserAgent(headers) ==
    IF \E i \in DOMAIN headers : ToLowerCase(headers[i].name) = "user-agent"
      THEN headers
      ELSE Append(headers, [name |-> "User-Agent", value |-> UserAgent])

\* Lines 175-177: the GraphQL branch writes the header object found at line 96,
\* which the copied array of line 95 shares with the result.
SetFoundHeader(headers, found, mimeType) ==
    IF mimeType = Str(CONTENT_TYPE_GRAPHQL) /\ found # 0
      THEN [headers EXCEPT ![found].value = CONTENT_TYPE_JSON]
      ELSE headers

\* Lines 145-191: the new body.
NewBody(oldBody, mimeType) ==
    IF mimeType = Str(CONTENT_TYPE_FORM_URLENCODED) \/ mimeType = Str(CONTENT_TYPE_FORM_DATA)
      THEN [mimeType |-> mimeType.s,
            params |-> IF "params" \in DOMAIN oldBody THEN oldBody.params
                       ELSE IF TextOf(oldBody) # ""
                         THEN DeconstructQueryStringToParams(oldBody.text)
                       ELSE << >>]
    ELSE IF mimeType = Str(CONTENT_TYPE_FILE)
      THEN [mimeType |-> CONTENT_TYPE_FILE, fileName |-> ""]
    ELSE IF mimeType = Str(CONTENT_TYPE_GRAPHQL) THEN NewBodyGraphQL(TextOf(oldBody))
    ELSE IF mimeType.t # "string" THEN << >>
    ELSE [mimeType |-> Split(mimeType.s, ";")[1], text |-> TextOf(oldBody)]

\* updateMimeType(request, mimeType, false, savedBody), lines 89-208: the document
\* that update is given, the method included (line 102 writes it on the request).
UpdateMimeType(req, mimeType, savedBody) ==
    LET found == GetContentTypeHeader(req.headers)
        oldBody == IF DOMAIN savedBody = {} THEN req.body ELSE savedBody
    IN [method |-> IF mimeType = Str(CONTENT_TYPE_GRAPHQL) THEN METHOD_POST ELSE req.method,
        headers |-> SetFoundHeader(AddUserAgent(UpdateContentType(req.headers, mimeType)),
                                   found, mimeType),
        body |-> NewBody(oldBody, mimeType)]

\* The requests the pane is opened on, and the mime types of the dropdown.
HeaderLists ==
    { << >>,
      <<[name |-> "Content-Type", value |-> CONTENT_TYPE_JSON]>>,
      <<[name |-> "content-type", value |-> "text/plain"]>>,
      <<[name |-> "User-Agent", value |-> "curl/8"],
        [name |-> "Content-Type", value |-> CONTENT_TYPE_XML]>>,
      <<[name |-> "USER-AGENT", value |-> "curl/8"]>>,
      <<[name |-> "Accept", value |-> "*/*"]>> }
Bodies ==
    {<< >>} \cup {[mimeType |-> CONTENT_TYPE_JSON, text |-> t] : t \in Texts \ {""}}
        \cup {[mimeType |-> CONTENT_TYPE_FORM_URLENCODED,
               params |-> <<[name |-> "a", value |-> "1"]>>]}
RequestDocuments == [method : {"GET", "PUT"}, headers : HeaderLists, body : Bodies]
MimeTypes ==
    {Null} \cup {Str(m) : m \in {CONTENT_TYPE_JSON, CONTENT_TYPE_XML, CONTENT_TYPE_GRAPHQL,
                                 CONTENT_TYPE_FORM_URLENCODED, CONTENT_TYPE_FORM_DATA,
                                 CONTENT_TYPE_FILE, CONTENT_TYPE_OTHER,
                                 "text/plain; charset=utf-8"}}

\* updateRequestMimeType(mimeType), lines 294-306: the body is saved in the request
\* meta when "No body" is chosen and cleared otherwise; updateMimeType gets the
\* saved body the meta had before.
UpdateRequestMimeType(mimeType) ==
    /\ Len(updated) < MaxUpdates
    /\ savedRequestBody' = IF mimeType.t # "string" THEN document.body ELSE << >>
    /\ document' = UpdateMimeType(document, mimeType, savedRequestBody)
    /\ updated' = Append(updated, mimeType)
    /\ bodies' = Append(bodies, document.body)
    /\ UNCHANGED notRequestPane

RequestPaneInit == InitOfPanes /\ document \in RequestDocuments

RequestPaneNext == \E mimeType \in MimeTypes : UpdateRequestMimeType(mimeType)

RequestPaneSpec == RequestPaneInit /\ [][RequestPaneNext]_vars

(***************************************************************************)
(* The claims.                                                             *)
(***************************************************************************)

KeyOf(c) == calls[c].key
Keyed == {k \in CacheKeys : ~Falsy(k)}
CallsWith(k) == {c \in DOMAIN calls : KeyOf(c) = k}
LiveCallsWith(k) == {c \in CallsWith(k) : calls[c].live}
NameOf(c) == ToPropertyKey(KeyOf(c))
Stored(name) == name \in DOMAIN getRenderContextPromiseCache
Creator(p) == promises[p].by
InFlightFor(k) ==
    {p \in DOMAIN promises : promises[p].status = "pending" /\ KeyOf(Creator(p)) = k}

\* C1: while no eviction removes the entry of a non-empty key k, the calls made with
\* k invoke the context builder exactly once and all await the identical promise.
C1_CallsOfOneResidencyShare ==
    \A k \in Keyed :
        LiveCallsWith(k) # {} =>
            /\ Cardinality({c \in LiveCallsWith(k) : calls[c].fetched}) = 1
            /\ Cardinality({calls[c].awaits : c \in LiveCallsWith(k)}) = 1

\* C2, as claimed: for any cache key at most one computation started for that key
\* is in flight, whatever the builder latency.
C2_AtMostOneInFlight ==
    \A k \in Keyed : Cardinality(InFlightFor(k)) <= 1

\* C2, amended: for any cache key at most one in-flight computation started for that
\* key was started since the key's entry was last removed from the table; the others
\* were evicted while they were still running.
C2_AtMostOneInFlightPerResidency ==
    \A k \in Keyed :
        Cardinality({p \in InFlightFor(k) : calls[Creator(p)].live}) <= 1

\* C2: two computations started for the same key are in flight, the older one evicted.
C2_Witness ==
    \E k \in Keyed :
        /\ Cardinality(InFlightFor(k)) = 2
        /\ Cardinality({p \in InFlightFor(k) : calls[Creator(p)].live}) = 1

\* C3: one eviction timer is scheduled per population: the call that stores a new
\* promise schedules one, a call that finds a promise for its key schedules none.
C3_OneTimerPerPopulation ==
    /\ \A t \in timers : calls[t.id].fetched
    /\ Cardinality(timers) <= Len(promises)

\* C4: a call without a cache key invokes the context builder and leaves the cache
\* table as it was.
C4_NoKeyCallLeavesTable ==
    [][\A c \in DOMAIN calls' \ DOMAIN calls :
            calls'[c].key = Null =>
                /\ calls'[c].fetched
                /\ getRenderContextPromiseCache' = getRenderContextPromiseCache]_vars

\* C5: every call without a cache key invokes the context builder itself and awaits
\* the promise it created; no two such calls await the same promise.
C5_NoKeyCallsNeverShare ==
    /\ \A c \in CallsWith(Null) :
            /\ calls[c].fetched
            /\ calls[c].awaits \in DOMAIN promises
            /\ Creator(calls[c].awaits) = c
    /\ \A c, d \in CallsWith(Null) : c # d => calls[c].awaits # calls[d].awaits

\* C5: two calls without a key wait at the same time, each for its own promise, after
\* a timer of the first has fired.
C5_Witness ==
    \E c, d \in CallsWith(Null) :
        /\ c < d
        /\ calls[c].state = "awaiting" /\ calls[d].state = "awaiting"
        /\ \A t \in timers : t.id # c

\* C6: once 5000 ms have elapsed after a call populated the table for key k, the next
\* call with key k invokes the context builder again and awaits a new promise.
C6_MissAfterDelay ==
    \A p, c \in DOMAIN calls :
        ( /\ p < c
          /\ KeyOf(p) \in Keyed /\ KeyOf(c) = KeyOf(p)
          /\ calls[p].fetched
          /\ Ms(calls[c].at - calls[p].at) > EvictionDelay
          /\ \A q \in CallsWith(KeyOf(p)) :
                p < q /\ q < c => Ms(calls[q].at - calls[p].at) < EvictionDelay )
        => calls[c].fetched /\ calls[c].awaits # calls[p].awaits

\* C7: every entry of the table is removed no later than 5000 ms after it was
\* stored, whatever became of its promise, and once the calls have stopped the table
\* becomes empty for good.
C7_EntriesLeaveInTime ==
    /\ [](\A name \in DOMAIN getRenderContextPromiseCache :
            Ms(now - calls[Creator(getRenderContextPromiseCache[name])].at)
                <= EvictionDelay)
    /\ <>[](getRenderContextPromiseCache = << >>)

\* C7: the entry of a rejected promise has been removed, 5000 ms after it was stored.
C7_Witness ==
    \E c \in DOMAIN calls :
        /\ calls[c].fetched
        /\ promises[calls[c].awaits].status = "rejected"
        /\ ~calls[c].live
        /\ Ms(now - calls[c].at) = EvictionDelay
        /\ getRenderContextPromiseCache = << >>

\* C8: a rejected promise stays in the table until an eviction removes it: until then
\* every call with its key awaits it, throws its rejection and invokes no builder.
C8_RejectionStaysCached ==
    \A c \in DOMAIN calls :
        ( /\ KeyOf(c) \in Keyed
          /\ calls[c].live
          /\ promises[calls[c].awaits].status = "rejected" )
        => /\ Stored(NameOf(c))
           /\ getRenderContextPromiseCache[NameOf(c)] = calls[c].awaits
           /\ calls[c].state = "threwFetch"
           /\ \A d \in LiveCallsWith(KeyOf(c)) :
                /\ calls[d].awaits = calls[c].awaits
                /\ d > c => ~calls[d].fetched

\* C9: a timer that fires removes whatever is stored under its key, also a promise
\* stored after the timer was scheduled.
C9_TimerRemovesWhateverIsStored ==
    [][\A t \in timers \ timers' : t.key \notin DOMAIN getRenderContextPromiseCache']_vars

\* C9: a later population of a key has been removed less than 5000 ms after it was
\* stored.
C9_Witness ==
    \E b, c \in CallsWith(Str("req-1")) :
        /\ b < c
        /\ calls[b].fetched /\ calls[c].fetched
        /\ ~calls[c].live
        /\ ~Stored("req-1")
        /\ Ms(now - calls[c].at) < EvictionDelay

\* C10: a call awaits the promise that is in the table at the instant of the call,
\* the one found there or the one it has just stored; never one created later.
C10_AwaitsThePromiseOfItsInstant ==
    /\ [](\A c \in DOMAIN calls :
            /\ calls[c].awaits \in DOMAIN promises
            /\ Creator(calls[c].awaits) <= c
            /\ calls[c].fetched <=> Creator(calls[c].awaits) = c)
    /\ [][\A c \in DOMAIN calls' \ DOMAIN calls :
            /\ getRenderContextPromiseCache'[NameOf(c)'] = calls'[c].awaits
            /\ ~calls'[c].fetched =>
                    getRenderContextPromiseCache[NameOf(c)'] = calls'[c].awaits]_vars

\* C10: a call found a promise of an earlier call, and a later call of the same key
\* has created another promise since.
C10_Witness ==
    \E b, c, d \in DOMAIN calls :
        /\ b < c /\ c < d
        /\ KeyOf(b) = KeyOf(c) /\ KeyOf(c) = KeyOf(d)
        /\ ~calls[c].fetched /\ calls[c].awaits = calls[b].awaits
        /\ calls[d].fetched

\* C11: eviction cancels nothing: a promise whose entry has been removed can still
\* fulfil or reject, and every call that awaits it gets its outcome.
C11_EvictionDoesNotCancel ==
    /\ \A p \in DOMAIN promises :
            promises[p].status = "pending" =>
                ENABLED Settle(p, "fulfilled") /\ ENABLED Settle(p, "rejected")
    /\ \A c \in DOMAIN calls :
            calls[c].state = Outcome(calls[c].obj, promises[calls[c].awaits].status)

\* C11: a timer has removed the entry of "req-1" while its promise was pending and
\* two calls were awaiting it; a later call of the key has fetched again, and the
\* first promise can still settle.
C11_Witness ==
    \E c, d, e \in CallsWith(Str("req-1")) :
        /\ c < d /\ d < e
        /\ calls[c].fetched /\ calls[d].awaits = calls[c].awaits /\ calls[e].fetched
        /\ ~calls[c].live /\ ~calls[d].live
        /\ calls[c].state = "awaiting" /\ calls[d].state = "awaiting"
        /\ promises[calls[c].awaits].status = "pending"
        /\ getRenderContextPromiseCache["req-1"] = calls[e].awaits
        /\ ENABLED Settle(calls[c].awaits, "rejected")

\* C12: a timer that was scheduled before a reset of the table leaves the table as
\* it is when it fires after the reset.
C12_TimersOfBeforeResetDoNothing ==
    [][\A t \in timers :
            t.reset /\ t \notin timers' =>
                getRenderContextPromiseCache' = getRenderContextPromiseCache]_vars

\* The calls whose render fails in this step.
RenderFailsNow ==
    {c \in DOMAIN calls' :
        /\ calls'[c].state = "threwRender"
        /\ c \in DOMAIN calls => calls[c].state # "threwRender"}

\* C13: a render failure reaches only the call whose template failed and is not
\* cached: the promise the call awaited stays fulfilled, each call that shares it
\* has the outcome of its own template, and the step in which render fails leaves
\* the table unchanged.
C13_RenderFailureIsOfTheCallOnly ==
    /\ [](\A c \in DOMAIN calls :
            calls[c].state = "threwRender" =>
                /\ RenderFails(calls[c].obj)
                /\ promises[calls[c].awaits].status = "fulfilled"
                /\ \A d \in DOMAIN calls :
                        calls[d].awaits = calls[c].awaits =>
                            calls[d].state = IF RenderFails(calls[d].obj)
                                               THEN "threwRender" ELSE "returned")
    /\ [][RenderFailsNow # {} =>
            getRenderContextPromiseCache' = getRenderContextPromiseCache]_vars

\* C13: of three calls that share the promise of "req-1", the first two before it
\* fulfilled and the third as a hit after, the second failed to render, the other
\* two returned, and the promise is still in the table.
C13_Witness ==
    \E c, d, e \in CallsWith(Str("req-1")) :
        /\ c < d /\ d < e
        /\ calls[c].fetched /\ calls[d].awaits = calls[c].awaits
        /\ calls[e].awaits = calls[c].awaits
        /\ calls[c].state = "returned" /\ calls[d].state = "threwRender"
        /\ calls[e].state = "returned"
        /\ calls[e].at > calls[d].at
        /\ Stored("req-1") /\ getRenderContextPromiseCache["req-1"] = calls[c].awaits

DialogsOf(s) == {d \in DOMAIN dialogs : dialogs[d].submit = s}
IpcOf(s) == {i \in DOMAIN ipc : ipc[i].submit = s}
Failed(s) == submits[s].err # NoError
Completed(s) == submits[s].pc = "done" /\ ~Failed(s)

\* C14: a failure in interpolateOpenAndSend is caught and shows exactly one dialog,
\* the render-error modal if and only if the type of the failure is 'render' and
\* the 'Unexpected Request Failure' alert otherwise; a submit that has not failed
\* shows none.
C14_OneDialogPerFailure ==
    \A s \in DOMAIN submits :
        IF Failed(s)
          THEN /\ submits[s].pc = "done"
               /\ Cardinality(DialogsOf(s)) = 1
               /\ \A d \in DialogsOf(s) :
                    /\ dialogs[d].dialog = "RequestRenderErrorModal"
                            <=> submits[s].err.type = "render"
                    /\ dialogs[d].dialog = "Unexpected Request Failure"
                            <=> submits[s].err.type # "render"
          ELSE DialogsOf(s) = {}

\* C14: one submit failed with a render error and the other with an Error without
\* a type; the modal and the alert have been shown, one each.
C14_Witness ==
    \E s, t \in DOMAIN submits :
        /\ submits[s].err = RenderError /\ submits[t].err = OtherError
        /\ \E d \in DialogsOf(s) : dialogs[d].dialog = "RequestRenderErrorModal"
        /\ \E d \in DialogsOf(t) : dialogs[d].dialog = "Unexpected Request Failure"
        /\ Len(dialogs) = 2

\* C17: a submit that completes without a failure has made exactly one call,
\* webSocket.open with the rendered message as initial payload when the ready state
\* it read was false and webSocket.event.send with the rendered message when it was
\* true; a submit that failed, or has not completed, has made none.
C17_OneIpcPerSubmit ==
    \A s \in DOMAIN submits :
        IF Completed(s)
          THEN /\ Cardinality(IpcOf(s)) = 1
               /\ \A i \in IpcOf(s) :
                    IF submits[s].readyState
                      THEN /\ ipc[i].call = "webSocket.event.send"
                           /\ ipc[i].payload = Render(submits[s].payload)
                      ELSE /\ ipc[i].call = "webSocket.open"
                           /\ ipc[i].initialPayload = Render(submits[s].payload)
          ELSE IpcOf(s) = {}

\* C17: one submit has opened the connection and the other has sent on it.
C17_Witness ==
    \E s, t \in DOMAIN submits :
        /\ Completed(s) /\ Completed(t)
        /\ \E i \in IpcOf(s) : ipc[i].call = "webSocket.open"
        /\ \E i \in IpcOf(t) : ipc[i].call = "webSocket.event.send"
        /\ Len(ipc) = 2

\* C15: the context a call awaits was built for the request that was active when
\* the call was made.
C15_ContextIsOfTheActiveRequest ==
    \A c \in DOMAIN calls : promises[calls[c].awaits].context = calls[c].request

\* C16: a call with a non-empty cache key never awaits a promise created by a call
\* that supplied no key.
C16_KeyedCallsNeverGetNoKeyPromises ==
    \A c \in DOMAIN calls :
        KeyOf(c) \in Keyed => KeyOf(Creator(calls[c].awaits)) # Null

\* C18: the version changes only in a step that delivers a batch with a change
\* from sync to the request that is active.
C18_VersionFollowsTheActiveRequest ==
    [][version' # version =>
            \E change \in batch' : change.doc = request /\ change.fromSync]_vars

\* C19: at most one payload document exists for the request.
C19_AtMostOnePayload == Len(payloads) <= 1

\* The Content-Type header of the document: its value, "" when there is none.
ContentTypeOf(doc) ==
    LET h == GetContentTypeHeader(doc.headers)
    IN IF h = 0 THEN "" ELSE doc.headers[h].value

\* C20: after updateMimeType with the GraphQL mime type the method of the request
\* is POST and its Content-Type header has the value application/json.
C20_GraphQLIsPostedAsJson ==
    (updated # << >> /\ updated[Len(updated)] = Str(CONTENT_TYPE_GRAPHQL)) =>
        /\ document.method = "POST"
        /\ GetContentTypeHeader(document.headers) # 0
        /\ ContentTypeOf(document) = "application/json"

\* C20: GraphQL was chosen after "No body" had removed the Content-Type header of
\* the request: the header is back, with the JSON content type, and the body is a
\* GraphQL body.
C20_Witness ==
    /\ updated = <<Null, Str(CONTENT_TYPE_GRAPHQL)>>
    /\ document.method = "POST"
    /\ ContentTypeOf(document) = "application/json"
    /\ document.body.mimeType = "application/graphql"

\* The User-Agent headers of a header list, the name in any case.
UserAgentsOf(headers) ==
    {i \in DOMAIN headers : ToLowerCase(headers[i].name) = "user-agent"}

\* C21: after updateMimeType the headers contain a User-Agent header, and
\* updateMimeType appends one exactly when there was none: the headers that were
\* there are kept and no second one is added.
C21_OneUserAgentIsEnsured ==
    /\ [](updated # << >> => UserAgentsOf(document.headers) # {})
    /\ [][LET before == {document.headers[i] : i \in UserAgentsOf(document.headers)}
              after == {document'.headers[i] : i \in UserAgentsOf(document'.headers)}
          IN /\ Cardinality(UserAgentsOf(document'.headers)) =
                    IF before = {} THEN 1 ELSE Cardinality(UserAgentsOf(document.headers))
             /\ after = IF before = {}
                          THEN {[name |-> "User-Agent", value |-> UserAgent]}
                          ELSE before]_vars

\* C21: updateMimeType has run twice, the second time for "No body", on a request
\* that had no User-Agent header: the first run appended one and the second none.
C21_Witness ==
    /\ Len(updated) = 2 /\ updated[2] = Null
    /\ Cardinality(UserAgentsOf(document.headers)) = 1
    /\ \E i \in UserAgentsOf(document.headers) : document.headers[i].value = UserAgent

\* The mime types for which updateMimeType makes a body with a text (lines 185-190).
IsTextType(mimeType) ==
    /\ mimeType.t = "string"
    /\ mimeType.s \notin {CONTENT_TYPE_FORM_URLENCODED, CONTENT_TYPE_FORM_DATA,
                          CONTENT_TYPE_FILE, CONTENT_TYPE_GRAPHQL}

\* The first of the consecutive choices of "No body" that end just before choice n.
FirstNoBodyBefore(n) ==
    CHOOSE j \in 1..(n - 1) :
        /\ \A i \in j..(n - 1) : updated[i] = Null
        /\ j > 1 => updated[j - 1] # Null

\* C22: when a text body type is chosen after one or more consecutive choices of
\* "No body", the text of the new body is the text the request had before the first
\* of them.
C22_TextSurvivesNoBody ==
    LET n == Len(updated)
    IN (n > 1 /\ IsTextType(updated[n]) /\ updated[n - 1] = Null) =>
            TextOf(document.body) = TextOf(bodies[FirstNoBodyBefore(n)])

====
